---- MODULE Spec2Model ----
(***************************************************************************)
(* A model of bin/align/seqcap_align_2.py: the orchestration of a run that *)
(* partitions fasta records into loci, filters the loci on taxon coverage, *)
(* aligns and trims every surviving locus (sequentially or on a worker     *)
(* pool) and writes one file per trimmed locus into the output directory.  *)
(***************************************************************************)
EXTENDS Bags, FiniteSets, Integers, Sequences, TLC

\* ------------------------------------------------------------------ bounds
\* Number of records the input file holds at most.
MaxRecords == 4
\* Largest value multiprocessing.cpu_count() returns on the modelled hosts.
MaxCpu == 2
\* ------------------------------------------------------- program constants
\* Minimum group size of the relaxed (--incomplete-matrix) policy.
MinRelaxedTaxa == 3

VARIABLES
    args,        \* the parsed command line (get_args)
    pc,          \* position of main()
    outdir,      \* the output directory: [exists, files]
    outdir0,     \* the output directory as it was when the run started
    answer,      \* what raw_input returned (NotAsked while not asked)
    infile,      \* the records FastaReader has yielded so far, in read order
    skipped,     \* identifiers printed as "Skipping ... ambiguous bases"
    loci,        \* the defaultdict(list) of get_fasta_dict
    snapshot,    \* the deep copy the filter iterates over
    scanned,     \* keys of snapshot the filter loop has visited
    warnings,    \* bag of the log.warn messages emitted
    params,      \* the job list built by main (zip(loci.items(), opts))
    cpu,         \* what multiprocessing.cpu_count() returned (0: not called)
    job,         \* per job: the locals of align()
    tmpdir,      \* the temporary files: name -> sequences written
    outqueue,    \* results in the order the jobs completed: <<index, result>>
    alignments,  \* the list map()/pool.map() returned
    nwritten     \* how many tuples write_alignments_to_outdir has consumed

vars == <<args, pc, outdir, outdir0, answer, infile, skipped, loci, snapshot,
          scanned, warnings, params, cpu, job, tmpdir, outqueue, alignments,
          nwritten>>

\* ------------------------------------------------------------------ inputs
\* A record of the input file. The identifier is kept as its list of
\* pipe-delimited fields; the second field is kept as its list of
\* underscore-delimited parts. A string built by '_'.join is the list of its
\* parts.
Records ==
    { [identifier |-> <<"x", <<"A", "1">>>>, sequence |-> <<"A", "C">>],
      [identifier |-> <<"x", <<"A", "2">>>>, sequence |-> <<"A", "N">>] }

\* The files an output directory left over from an earlier run holds.
OldFiles ==
    (<< <<"old">>, ".nex" >> :>
        [format |-> "nexus",
         alignment |-> [isNone |-> FALSE, rows |-> <<>>, cut |-> TRUE]])

ArgsSet ==
    [ ambiguous : BOOLEAN, faircloth : BOOLEAN, notstrict : BOOLEAN,
      species : {1, 2}, notrim : BOOLEAN, cores : 1..(MaxCpu + 1),
      window : {20}, proportion : {50}, threshold : {65},
      max_divergence : {10} ]

EmptyMap == [k \in {} |-> <<>>]

NotAsked == "<not asked>"

\* ----------------------------------------------------------------- helpers
\* 'N' in record.sequence
HasN(sequence) == \E i \in DOMAIN sequence : sequence[i] = "N"

\* The locus key of a record under the active naming scheme.
LocusOf(record, faircloth) ==
    IF ~faircloth
    THEN record.identifier[2]
    ELSE <<record.identifier[1], record.identifier[2][1]>>

\* The record put at the front of the list instead of its end.
DictAppendFront(d, locus, record) ==
    IF locus \in DOMAIN d
    THEN [d EXCEPT ![locus] = <<record>> \o @]
    ELSE d @@ (locus :> <<record>>)

\* loci[locus].append(record) on a defaultdict(list)
DictAppend(d, locus, record) ==
    IF locus \in DOMAIN d
    THEN [d EXCEPT ![locus] = Append(@, record)]
    ELSE d @@ (locus :> <<record>>)

\* del d[locus]
DictDel(d, locus) == [k \in DOMAIN d \ {locus} |-> d[k]]

\* build_locus_dict with the test on the ambiguous flag inverted.
build_locus_dict_inverted(d, locus, record, ambiguous) ==
    IF ambiguous
    THEN IF ~HasN(record.sequence)
         THEN DictAppend(d, locus, record)
         ELSE d
    ELSE DictAppend(d, locus, record)

build_locus_dict(d, locus, record, ambiguous) ==
    IF ~ambiguous
    THEN IF ~HasN(record.sequence)
         THEN DictAppend(d, locus, record)
         ELSE d
    ELSE DictAppend(d, locus, record)

\* Whether build_locus_dict prints the "Skipping" line for the record.
PrintsSkip(record, ambiguous) == ~ambiguous /\ HasN(record.sequence)

\* str.format: a template is its text and its replacement fields, each
\* either numbered ({0}) or automatic ({}). Python refuses a template that
\* mixes the two kinds.
ValueError == [text |-> "ValueError", values |-> <<>>]

PyFormat(tmpl, fargs) ==
    LET manual == {i \in DOMAIN tmpl.fields : tmpl.fields[i].manual}
        auto   == DOMAIN tmpl.fields \ manual
    IN  IF manual # {} /\ auto # {}
        THEN ValueError
        ELSE [text   |-> tmpl.text,
              values |-> [i \in DOMAIN tmpl.fields |->
                            IF tmpl.fields[i].manual
                            THEN fargs[tmpl.fields[i].index + 1]
                            ELSE fargs[i]]]

Numbered(n) == [manual |-> TRUE, index |-> n]
Automatic == [manual |-> FALSE, index |-> 0]

TooFewTaxaTmpl ==
    [text |-> "DROPPED locus {0}.  Too few taxa (N > 2).",
     fields |-> <<Numbered(0)>>]

NotAllTaxaTmpl ==
    [text |-> "DROPPED locus {0}.  Alignment does not contain all {} taxa.",
     fields |-> <<Numbered(0), Automatic>>]

DroppedFromOutputTmpl ==
    [text |-> "DROPPED {0} from output", fields |-> <<Numbered(0)>>]

\* The test with both comparisons off by one.
FailsCoverageOffByOne(data, a) ==
    IF a.notstrict
    THEN Len(data) <= MinRelaxedTaxa
    ELSE Len(data) <= a.species

\* The test the filter loop applies to one group of the snapshot.
FailsCoverage(data, a) ==
    IF a.notstrict
    THEN Len(data) < MinRelaxedTaxa
    ELSE Len(data) < a.species

\* ------------------------------------------------------------------- Init
Init ==
    /\ args \in ArgsSet
    /\ pc = "start"
    /\ outdir \in { [exists |-> FALSE, files |-> EmptyMap],
                    [exists |-> TRUE, files |-> OldFiles] }
    /\ outdir0 = outdir
    /\ answer = NotAsked
    /\ infile = <<>>
    /\ skipped = <<>>
    /\ loci = EmptyMap
    /\ snapshot = EmptyMap
    /\ scanned = {}
    /\ warnings = EmptyBag
    /\ params = <<>>
    /\ cpu = 0
    /\ job = <<>>
    /\ tmpdir = EmptyMap
    /\ outqueue = <<>>
    /\ alignments = <<>>
    /\ nwritten = 0

\* -------------------------------------------------------- create_output_dir
\* What raw_input can return.
Answers == {"Y", "y", "n", ""}

\* A confirmation test that also takes a lower-case "y".
ConfirmedAnyCase(a) == a \in {"Y", "y"}

\* answer == "Y"
Confirmed(a) == a = "Y"

create_output_dir ==
    /\ pc = "start"
    /\ IF outdir.exists
       THEN \E a \in Answers :
              /\ answer' = a
              /\ IF Confirmed(a)
                 THEN \* shutil.rmtree(outdir); os.makedirs(outdir)
                      /\ outdir' = [exists |-> TRUE, files |-> EmptyMap]
                      /\ pc' = "read"
                 ELSE \* sys.exit()
                      /\ outdir' = outdir
                      /\ pc' = "exited"
       ELSE /\ answer' = answer
            /\ outdir' = [exists |-> TRUE, files |-> EmptyMap]
            /\ pc' = "read"
    /\ UNCHANGED <<args, outdir0, infile, skipped, loci, snapshot, scanned,
                   warnings, params, cpu, job, tmpdir, outqueue, alignments,
                   nwritten>>

\* ------------------------------------------------------------ get_fasta_dict
\* One iteration of the loop over FastaReader(args.infile).
ReadRecord ==
    /\ pc = "read"
    /\ Len(infile) < MaxRecords
    /\ \E record \in Records :
         LET locus == LocusOf(record, args.faircloth) IN
         /\ infile' = Append(infile, record)
         /\ loci' = build_locus_dict(loci, locus, record, args.ambiguous)
         /\ skipped' = IF PrintsSkip(record, args.ambiguous)
                       THEN Append(skipped, record.identifier)
                       ELSE skipped
    /\ UNCHANGED <<args, pc, outdir, outdir0, answer, snapshot, scanned,
                   warnings, params, cpu, job, tmpdir, outqueue, alignments,
                   nwritten>>

\* The reader is exhausted: snapshot = copy.deepcopy(loci).
EndOfInput ==
    /\ pc = "read"
    /\ snapshot' = loci
    /\ pc' = "filter"
    /\ UNCHANGED <<args, outdir, outdir0, answer, infile, skipped, loci,
                   scanned, warnings, params, cpu, job, tmpdir, outqueue,
                   alignments, nwritten>>

\* The loop without the deep copy: snapshot is the mapping deleted from.
FilterStepInPlace ==
    /\ pc = "filter"
    /\ \E locus \in DOMAIN snapshot \ scanned :
         LET data == snapshot[locus]
             msg  == IF args.notstrict
                     THEN PyFormat(TooFewTaxaTmpl, <<locus>>)
                     ELSE PyFormat(NotAllTaxaTmpl, <<locus, args.species>>)
         IN
         /\ scanned' = scanned \cup {locus}
         /\ IF FailsCoverage(data, args)
            THEN /\ loci' = DictDel(loci, locus)
                 /\ snapshot' = DictDel(snapshot, locus)
                 /\ IF msg = ValueError
                    THEN /\ pc' = "crashed"
                         /\ warnings' = warnings
                    ELSE /\ pc' = pc
                         /\ warnings' = warnings (+) SetToBag({msg})
            ELSE UNCHANGED <<loci, snapshot, pc, warnings>>
    /\ UNCHANGED <<args, outdir, outdir0, answer, infile, skipped,
                   params, cpu, job, tmpdir, outqueue, alignments, nwritten>>

\* One iteration of the loop over snapshot.iteritems(); a dict is iterated
\* in an order the program does not choose.
FilterStep ==
    /\ pc = "filter"
    /\ \E locus \in DOMAIN snapshot \ scanned :
         LET data == snapshot[locus]
             msg  == IF args.notstrict
                     THEN PyFormat(TooFewTaxaTmpl, <<locus>>)
                     ELSE PyFormat(NotAllTaxaTmpl, <<locus, args.species>>)
         IN
         /\ scanned' = scanned \cup {locus}
         /\ IF FailsCoverage(data, args)
            THEN /\ loci' = DictDel(loci, locus)
                 /\ IF msg = ValueError
                    THEN \* the exception leaves get_fasta_dict and main
                         /\ pc' = "crashed"
                         /\ warnings' = warnings
                    ELSE /\ pc' = pc
                         /\ warnings' = warnings (+) SetToBag({msg})
            ELSE UNCHANGED <<loci, pc, warnings>>
    /\ UNCHANGED <<args, outdir, outdir0, answer, infile, skipped, snapshot,
                   params, cpu, job, tmpdir, outqueue, alignments, nwritten>>

\* return loci
FilterReturn ==
    /\ pc = "filter"
    /\ scanned = DOMAIN snapshot
    /\ pc' = "build"
    /\ UNCHANGED <<args, outdir, outdir0, answer, infile, skipped, loci,
                   snapshot, scanned, warnings, params, cpu, job, tmpdir,
                   outqueue, alignments, nwritten>>

\* ---------------------------------------------------------------------- main
\* An alignment object, or None. `rows` are the sequences it holds and `cut`
\* tells whether columns were trimmed off it.
None == [isNone |-> TRUE, rows |-> <<>>, cut |-> FALSE]
Alignment(rows, cut) == [isNone |-> FALSE, rows |-> rows, cut |-> cut]

\* Python truth value of an alignment-or-None: None and an alignment of
\* length 0 are false.
Truthy(v) == ~v.isNone /\ Len(v.rows) > 0

NoCall == [method |-> "none"]

\* The locals of align() before it has run.
Queued ==
    [state |-> "queued", fasta |-> 0, alignment |-> None, call |-> NoCall,
     trimmed |-> None, progress |-> <<>>]

\* All the orders loci.items() can list the keys of a dict in.
Orders(S) ==
    {o \in [1..Cardinality(S) -> S] :
        \A i, j \in 1..Cardinality(S) : o[i] = o[j] => i = j}

\* opts entry built for every locus.
Opts(a) == <<a.window, a.threshold, a.notrim, a.proportion, a.max_divergence>>

\* opts = [...]; params = zip(loci.items(), opts)
BuildParams ==
    /\ pc = "build"
    /\ \E o \in Orders(DOMAIN loci) :
         params' = [i \in DOMAIN o |-> << <<o[i], loci[o[i]]>>, Opts(args) >>]
    /\ job' = [i \in 1..Cardinality(DOMAIN loci) |-> Queued]
    /\ pc' = "dispatch"
    /\ UNCHANGED <<args, outdir, outdir0, answer, infile, skipped, loci,
                   snapshot, scanned, warnings, cpu, tmpdir, outqueue,
                   alignments, nwritten>>

\* The check with the assertion compiled away.
AssertCoresSkipped(cores, n) == TRUE

\* assert args.cores <= multiprocessing.cpu_count()
AssertCores(cores, n) == cores <= n

\* if args.cores > 1: assert ...; pool = Pool(cores) ... else: map(...)
Dispatch ==
    /\ pc = "dispatch"
    /\ IF args.cores > 1
       THEN \E n \in 1..MaxCpu :
              /\ cpu' = n
              /\ pc' = IF AssertCores(args.cores, n)
                       THEN "pool_map"
                       ELSE "assert_failed"
       ELSE /\ cpu' = cpu
            /\ pc' = "map"
    /\ UNCHANGED <<args, outdir, outdir0, answer, infile, skipped, loci,
                   snapshot, scanned, warnings, params, job, tmpdir, outqueue,
                   alignments, nwritten>>

\* A pool that was created without any process to give a Job to.
WorkersNone == IF pc = "pool_map" THEN 0 ELSE 1

\* Number of jobs that can be inside align() at once: the pool's processes,
\* or the one thread of the builtin map.
Workers == IF pc = "pool_map" THEN args.cores ELSE 1

InFlight == {i \in DOMAIN job : job[i].state \in {"fasta", "aligned", "trimmed"}}

\* Jobs handed out in any order.
CanStartAnyOrder(i) ==
    /\ pc \in {"map", "pool_map"}
    /\ job[i].state = "queued"
    /\ Cardinality(InFlight) < Workers

\* Jobs are handed out in the order of params.
CanStart(i) ==
    /\ pc \in {"map", "pool_map"}
    /\ job[i].state = "queued"
    /\ \A j \in 1..(i - 1) : job[j].state # "queued"
    /\ Cardinality(InFlight) < Workers

\* A name generator that does not look at the files that exist.
FreshNamesUnchecked(dir) == {1, 2}

\* A name generator that hands out the same name every time.
FreshNamesReused(dir) == {1}

\* Names tempfile.mkstemp can return: any name no existing file has (the
\* two smallest unused ones stand for the random names it draws).
FreshNames(dir) == (1..(Cardinality(DOMAIN dir) + 2)) \ DOMAIN dir

JobFrame == <<args, pc, outdir, outdir0, answer, infile, skipped, loci,
              snapshot, scanned, warnings, params, cpu, alignments, nwritten>>

\* align(): fasta = create_locus_specific_fasta(sequences)
CreateFasta(i) ==
    /\ CanStart(i)
    /\ \E f \in FreshNames(tmpdir) :
         /\ tmpdir' = tmpdir @@ (f :> params[i][1][2])
         /\ job' = [job EXCEPT ![i].state = "fasta", ![i].fasta = f]
    /\ UNCHANGED <<JobFrame, outqueue>>

\* What the Aligner's run_alignment leaves in aln.alignment.
AlignerRun(sequences) == Alignment(sequences, FALSE)

\* align(): aln = Align(fasta); aln.run_alignment()
RunAlignment(i) ==
    /\ pc \in {"map", "pool_map"}
    /\ job[i].state = "fasta"
    /\ job' = [job EXCEPT ![i].state = "aligned",
                          ![i].alignment = AlignerRun(tmpdir[job[i].fasta])]
    /\ UNCHANGED <<JobFrame, tmpdir, outqueue>>

\* The call with threshold and proportion taken from each other's slot.
TrimCallSwapped(opts) ==
    IF opts[3]
    THEN [method |-> "notrim"]
    ELSE [method |-> "running", window_size |-> opts[1],
          proportion |-> opts[2], threshold |-> opts[4],
          max_divergence |-> opts[5]]

\* The trim_alignment call align() makes for its opts.
TrimCall(opts) ==
    IF opts[3]
    THEN [method |-> "notrim"]
    ELSE [method |-> "running", window_size |-> opts[1],
          proportion |-> opts[4], threshold |-> opts[2],
          max_divergence |-> opts[5]]

\* What the Aligner's trim_alignment can leave in aln.trimmed.
AlignerTrim(call, alignment) ==
    IF call.method = "notrim"
    THEN {alignment}
    ELSE {None, Alignment(<<>>, TRUE), Alignment(alignment.rows, TRUE)}

\* align(): aln.trim_alignment(...)
TrimAlignment(i) ==
    /\ pc \in {"map", "pool_map"}
    /\ job[i].state = "aligned"
    /\ LET call == TrimCall(params[i][2]) IN
       \E t \in AlignerTrim(call, job[i].alignment) :
         job' = [job EXCEPT ![i].state = "trimmed", ![i].call = call,
                            ![i].trimmed = t]
    /\ UNCHANGED <<JobFrame, tmpdir, outqueue>>

\* The progress character align() writes for aln.
ProgressChar(trimmed) == IF Truthy(trimmed) THEN "." ELSE "X"

\* align(): sys.stdout.write(...); return (name, aln)
ReturnResult(i) ==
    /\ pc \in {"map", "pool_map"}
    /\ job[i].state = "trimmed"
    /\ job' = [job EXCEPT ![i].state = "done",
                          ![i].progress = Append(@, ProgressChar(job[i].trimmed))]
    /\ outqueue' = Append(outqueue,
                          <<i, <<params[i][1][1],
                                 [alignment |-> job[i].alignment,
                                  trimmed |-> job[i].trimmed]>>>>)
    /\ UNCHANGED <<JobFrame, tmpdir>>

\* The list map() and pool.map() return: the result of the i-th item at
\* position i, whatever the order the results arrived in.
Collect(queue) ==
    [i \in 1..Len(queue) |->
        (CHOOSE k \in DOMAIN queue : queue[k][1] = i) \* index of item i
    ]

\* The results in the order they arrived in.
ResultListArrival(queue) == [i \in 1..Len(queue) |-> queue[i][2]]

\* A result list that repeats the first item's result at every position.
ResultListRepeated(queue) ==
    [i \in 1..Len(queue) |-> queue[Collect(queue)[1]][2]]

ResultList(queue) == [i \in 1..Len(queue) |-> queue[Collect(queue)[i]][2]]

\* A map that returns as soon as the first result is in.
MapReturnEarly ==
    /\ pc \in {"map", "pool_map"}
    /\ outqueue # <<>>
    /\ alignments' = ResultListArrival(outqueue)
    /\ pc' = "write"
    /\ UNCHANGED <<args, outdir, outdir0, answer, infile, skipped, loci,
                   snapshot, scanned, warnings, params, cpu, job, tmpdir,
                   outqueue, nwritten>>

\* alignments = pool.map(align, params) / map(align, params)
MapReturn ==
    /\ pc \in {"map", "pool_map"}
    /\ \A i \in DOMAIN job : job[i].state = "done"
    /\ alignments' = ResultList(outqueue)
    /\ pc' = "write"
    /\ UNCHANGED <<args, outdir, outdir0, answer, infile, skipped, loci,
                   snapshot, scanned, warnings, params, cpu, job, tmpdir,
                   outqueue, nwritten>>

\* ------------------------------------------------ write_alignments_to_outdir
formats ==
    [clustal |-> ".clw", emboss |-> ".emboss", fasta |-> ".fa",
     nexus |-> ".nex", phylip |-> ".phylip", stockholm |-> ".stockholm"]

\* main() passes no format: the default applies.
DefaultFormat == "nexus"

\* The name, inside outdir, of the file written for a locus.
OutName(locus, format) == <<locus, formats[format]>>

\* The collator testing the truth value of aln.trimmed, as align() does.
ShouldWriteTruthy(aln) == Truthy(aln.trimmed)

\* The collator writing every result, trimmed or not.
ShouldWriteAlways(aln) == TRUE

\* if aln.trimmed is not None
ShouldWrite(aln) == ~aln.trimmed.isNone

\* for tup in alignments: one iteration.
WriteAlignment ==
    /\ pc = "write"
    /\ nwritten < Len(alignments)
    /\ LET tup   == alignments[nwritten + 1]
           locus == tup[1]
           aln   == tup[2]
       IN  IF ShouldWrite(aln)
           THEN /\ outdir' = [outdir EXCEPT !.files =
                                [n \in DOMAIN @ \cup {OutName(locus, DefaultFormat)} |->
                                    IF n = OutName(locus, DefaultFormat)
                                    THEN [format |-> DefaultFormat,
                                          alignment |-> aln.trimmed]
                                    ELSE @[n]]]
                /\ warnings' = warnings
           ELSE /\ warnings' = warnings (+)
                      SetToBag({PyFormat(DroppedFromOutputTmpl, <<locus>>)})
                /\ outdir' = outdir
    /\ nwritten' = nwritten + 1
    /\ UNCHANGED <<args, pc, outdir0, answer, infile, skipped, loci, snapshot,
                   scanned, params, cpu, job, tmpdir, outqueue, alignments>>

\* The loop is over: main() logs " Completed " and returns.
Complete ==
    /\ pc = "write"
    /\ nwritten = Len(alignments)
    /\ pc' = "completed"
    /\ UNCHANGED <<args, outdir, outdir0, answer, infile, skipped, loci,
                   snapshot, scanned, warnings, params, cpu, job, tmpdir,
                   outqueue, alignments, nwritten>>

Next ==
    \/ create_output_dir
    \/ ReadRecord
    \/ EndOfInput
    \/ FilterStep
    \/ FilterReturn
    \/ BuildParams
    \/ Dispatch
    \/ \E i \in DOMAIN job : CreateFasta(i)
    \/ \E i \in DOMAIN job : RunAlignment(i)
    \/ \E i \in DOMAIN job : TrimAlignment(i)
    \/ \E i \in DOMAIN job : ReturnResult(i)
    \/ MapReturn
    \/ WriteAlignment
    \/ Complete

Spec == Init /\ [][Next]_vars

\* The runs whose termination is examined: a fresh output directory and an
\* input of which every record is kept and every locus survives (standard
\* names, --ambiguous, strict with species = 1), with every choice of
\* notrim and cores.
FairInit ==
    /\ Init
    /\ ~outdir.exists
    /\ ~args.faircloth
    /\ args.ambiguous
    /\ ~args.notstrict
    /\ args.species = 1

\* The run under fair scheduling: the interpreter goes on executing main(),
\* the pool's workers go on executing their Jobs and every Aligner call
\* returns, so a step that can be taken is eventually taken.
FairSpec == FairInit /\ [][Next]_vars /\ WF_vars(Next)

\* ================================================================== claims
\* Names used by the properties below.
Aborted == pc \in {"exited", "crashed", "assert_failed"}

\* The filter has returned its mapping to main().
FilterReturned ==
    pc \in {"build", "dispatch", "assert_failed", "map", "pool_map", "write",
            "completed"}

\* The mapping as partitioning left it, before any filtering.
PreFilter == IF pc = "read" THEN loci ELSE snapshot

NoJobStarted ==
    /\ tmpdir = EmptyMap
    /\ \A i \in DOMAIN job : job[i] = Queued
    /\ outqueue = <<>>
    /\ alignments = <<>>
    /\ outdir.files \in {EmptyMap, OldFiles}
    /\ outdir.files = OldFiles => outdir = outdir0

\* The name of the file a locus is written to.
NexusName(locus) == <<locus, ".nex">>

\* The loci whose result carries a trimmed alignment / carries none.
PresentLoci == {alignments[i][1] : i \in {j \in DOMAIN alignments : ~alignments[j][2].trimmed.isNone}}
AbsentLoci == {alignments[i][1] : i \in {j \in DOMAIN alignments : alignments[j][2].trimmed.isNone}}

\* C1: when the requested cores exceed the host's concurrency, the run aborts
\* with the output directory as it was before the run: neither created nor
\* cleared.
C1_CapacityAbortLeavesOutdir ==
    pc = "assert_failed" => outdir = outdir0

\* C2: when cores > 1 exceeds the host's concurrency, no state of the run has
\* a temporary file, an Aligner invocation, a result or an output file: the
\* run stops at the assertion, before any Job is handed out.
C2_CapacityAbortBeforeJobs ==
    (args.cores > 1 /\ (cpu = 0 \/ args.cores > cpu)) =>
        /\ NoJobStarted
        /\ pc \notin {"map", "pool_map", "write", "completed"}

C2_Witness ==
    /\ pc = "assert_failed"
    /\ args.cores > cpu
    /\ Len(params) >= 1

\* C3: a group that fails the coverage policy is a non-fatal skip in strict
\* and in relaxed mode: once the scan has visited it the locus is removed, a
\* warning naming it has been logged, and the run has not been aborted by it.
C3_CoverageSkipNonFatal ==
    \A locus \in scanned :
        FailsCoverage(snapshot[locus], args) =>
            /\ pc # "crashed"
            /\ locus \notin DOMAIN loci
            /\ \E m \in BagToSet(warnings) :
                  /\ m.text \in {TooFewTaxaTmpl.text, NotAllTaxaTmpl.text}
                  /\ m.values[1] = locus

\* C4: in the mapping the filter returns, a group of the partition is present
\* exactly if its record count is >= species (strict) or >= 3 (relaxed, where
\* species plays no part).
\* While the scan is under way the same holds of every group it has visited.
C4_FilterIffPolicy ==
    \A locus \in DOMAIN snapshot :
        (FilterReturned \/ locus \in scanned) =>
            (locus \in DOMAIN loci <=>
                IF args.notstrict
                THEN Len(snapshot[locus]) >= 3
                ELSE Len(snapshot[locus]) >= args.species)

C4_Witness ==
    /\ FilterReturned
    /\ args.notstrict
    /\ \E kept, dropped \in DOMAIN snapshot :
          /\ kept \in DOMAIN loci
          /\ dropped \notin DOMAIN loci
          /\ Len(snapshot[dropped]) < args.species
          /\ Len(snapshot[kept]) >= 3

\* C5: with an existing output directory and any answer but the explicit
\* confirmation the run exits with nothing done: directory and contents
\* unchanged, no record read, no Job built, no temporary or output file; and
\* an existing directory is only ever changed after the answer "Y".
C5_NoConfirmationNoEffect ==
    /\ (outdir0.exists /\ answer \notin {NotAsked, "Y"}) =>
          /\ pc = "exited"
          /\ outdir = outdir0
          /\ infile = <<>> /\ loci = EmptyMap /\ snapshot = EmptyMap
          /\ params = <<>> /\ job = <<>>
          /\ tmpdir = EmptyMap
          /\ outqueue = <<>> /\ alignments = <<>>
          /\ warnings = EmptyBag
    /\ (outdir0.exists /\ outdir # outdir0) => answer = "Y"

C5_Witness ==
    /\ pc = "exited"
    /\ answer = "y"
    /\ outdir.files = OldFiles

\* C6: the list of results handed to the collator names the loci in the order
\* the Jobs were submitted, under the sequential map and under the pool,
\* whatever the order the Jobs completed in.
C6_ResultOrderIsSubmissionOrder ==
    pc \in {"write", "completed"} =>
        /\ Len(alignments) = Len(params)
        /\ \A i \in DOMAIN params :
              /\ alignments[i][1] = params[i][1][1]
              /\ alignments[i][2].alignment.rows = params[i][1][2]

C6_Witness ==
    /\ pc = "write"
    /\ cpu # 0
    /\ Len(outqueue) = 2
    /\ outqueue[1][1] = 2
    /\ alignments[1][1] = params[1][1][1]

\* C7: after the collator has run, a result without trimmed alignment has no
\* file, a result with one has exactly the file <locus>.nex, and the output
\* directory holds nothing else.
C7_OneFilePerPresentResult ==
    pc = "completed" =>
        /\ DOMAIN outdir.files = {NexusName(l) : l \in PresentLoci}
        /\ \A l \in AbsentLoci, n \in DOMAIN outdir.files : n[1] # l
        /\ \A i, j \in DOMAIN alignments :
              alignments[i][1] = alignments[j][1] => i = j

C7_Witness ==
    /\ pc = "completed"
    /\ PresentLoci # {}
    /\ AbsentLoci # {}
    /\ \E i \in DOMAIN alignments :
          /\ ~alignments[i][2].trimmed.isNone
          /\ alignments[i][2].trimmed.rows = <<>>

\* The records with an ambiguity symbol that some collection holds.
AnyN(rows) == \E i \in DOMAIN rows : HasN(rows[i].sequence)

IsAmbiguousId(ident) ==
    \E r \in Records : r.identifier = ident /\ HasN(r.sequence)

\* C8: a record with the ambiguity symbol is in its locus group of the
\* partition exactly if ambiguous is set; a record without it always is; with
\* ambiguous unset the record is reported as skipped, reading goes on, and it
\* is in no group, no Job, no temporary file, no result and no output file.
C8_AmbiguousIffFlag ==
    /\ \A n \in DOMAIN infile :
          LET r == infile[n]
              k == LocusOf(r, args.faircloth)
              member == /\ k \in DOMAIN PreFilter
                        /\ \E j \in DOMAIN PreFilter[k] : PreFilter[k][j] = r
          IN  /\ HasN(r.sequence) => (member <=> args.ambiguous)
              /\ ~HasN(r.sequence) => member
              /\ (HasN(r.sequence) /\ ~args.ambiguous) =>
                    \E j \in DOMAIN skipped : skipped[j] = r.identifier
    /\ \A j \in DOMAIN skipped : ~args.ambiguous /\ IsAmbiguousId(skipped[j])
    /\ ~args.ambiguous =>
          /\ \A k \in DOMAIN loci : ~AnyN(loci[k])
          /\ \A k \in DOMAIN snapshot : ~AnyN(snapshot[k])
          /\ \A i \in DOMAIN params : ~AnyN(params[i][1][2])
          /\ \A f \in DOMAIN tmpdir : ~AnyN(tmpdir[f])
          /\ \A i \in DOMAIN job : ~AnyN(job[i].alignment.rows)
                                   /\ ~AnyN(job[i].trimmed.rows)
          /\ \A n \in DOMAIN outdir.files :
                ~AnyN(outdir.files[n].alignment.rows)

C8_Witness ==
    /\ pc = "completed"
    /\ ~args.ambiguous
    /\ Len(skipped) >= 1
    /\ HasN(infile[1].sequence)
    /\ Len(infile) >= 2
    /\ DOMAIN outdir.files # {}

\* Some Job's trim has failed: the Aligner left no trimmed alignment.
TrimFailed(i) == job[i].state \in {"trimmed", "done"} /\ job[i].trimmed.isNone

\* C9: a failed trim in one Job aborts nothing. The run is never stopped by
\* it, every Job (the failing one and the others) returns its own result
\* unchanged, the collator runs, the failing locus alone is left out of the
\* output and its drop is logged.
C9_TrimFailureIsLocal ==
    /\ (\E i \in DOMAIN job : TrimFailed(i)) =>
          /\ pc \in {"map", "pool_map", "write", "completed"}
          /\ pc # "completed" => ENABLED Next
    /\ pc = "completed" =>
          \A i \in DOMAIN params :
              LET locus == params[i][1][1] IN
              /\ job[i].state = "done"
              /\ alignments[i] = <<locus, [alignment |-> job[i].alignment,
                                            trimmed |-> job[i].trimmed]>>
              /\ IF job[i].trimmed.isNone
                 THEN /\ NexusName(locus) \notin DOMAIN outdir.files
                      /\ CopiesIn(PyFormat(DroppedFromOutputTmpl, <<locus>>),
                                  warnings) = 1
                 ELSE /\ NexusName(locus) \in DOMAIN outdir.files
                      /\ outdir.files[NexusName(locus)].alignment = job[i].trimmed

C9_Witness ==
    /\ pc = "completed"
    /\ \E i, j \in DOMAIN job :
          /\ TrimFailed(i)
          /\ ~job[j].trimmed.isNone
          /\ NexusName(params[j][1][1]) \in DOMAIN outdir.files
          /\ NexusName(params[i][1][1]) \notin DOMAIN outdir.files

\* C10: with notrim every Job's trim call has method 'notrim', leaves the
\* alignment unchanged as the trimmed value, and every surviving locus gets
\* its output file; without notrim every Job's trim call has method 'running'
\* and the run-wide window, proportion, threshold and max_divergence.
C10_TrimMethodFollowsNotrim ==
    /\ \A i \in DOMAIN job :
          job[i].state \in {"trimmed", "done"} =>
              IF args.notrim
              THEN /\ job[i].call = [method |-> "notrim"]
                   /\ job[i].trimmed = job[i].alignment
                   /\ ~job[i].trimmed.isNone
              ELSE job[i].call =
                      [method |-> "running", window_size |-> args.window,
                       proportion |-> args.proportion,
                       threshold |-> args.threshold,
                       max_divergence |-> args.max_divergence]
    /\ (pc = "completed" /\ args.notrim) =>
          DOMAIN outdir.files = {NexusName(l) : l \in DOMAIN loci}

C10_Witness ==
    /\ pc = "completed"
    /\ args.notrim
    /\ Cardinality(DOMAIN loci) = 2
    /\ Cardinality(DOMAIN outdir.files) = 2

\* ------------------------------------------------ reference: input -> result
\* What a run is to do with its input, written from the input alone.
\* The records of the input that belong to a locus, in read order.
ExpectedGroup(locus) ==
    LET Belongs(r) == /\ LocusOf(r, args.faircloth) = locus
                      /\ (args.ambiguous \/ ~HasN(r.sequence))
    IN  SelectSeq(infile, Belongs)

ExpectedKeys ==
    {k \in {LocusOf(r, args.faircloth) : r \in Records} : ExpectedGroup(k) # <<>>}

ExpectedSurvivors ==
    {k \in ExpectedKeys :
        Len(ExpectedGroup(k)) >= (IF args.notstrict THEN 3 ELSE args.species)}

\* The jobs built for a locus.
JobsOf(locus) == {i \in DOMAIN params : params[i][1][1] = locus}

\* C11: the output of a completed run is a function of its input, its
\* configuration and the Aligner's answers alone: for every locus that the
\* input makes survive, the Aligner was given exactly that locus's records
\* and the file <locus>.nex exists exactly if the Aligner left a trimmed
\* alignment, holding that alignment; there is no other file. Neither the
\* order of completion, nor the number of cores, nor the temporary file
\* names enter, so two runs that agree on input, configuration and Aligner
\* end with the same files.
C11_OutputDeterminedByInput ==
    pc = "completed" =>
        /\ DOMAIN outdir.files \subseteq {NexusName(l) : l \in ExpectedSurvivors}
        /\ \A l \in ExpectedSurvivors :
              /\ Cardinality(JobsOf(l)) = 1
              /\ \A i \in JobsOf(l) :
                    /\ tmpdir[job[i].fasta] = ExpectedGroup(l)
                    /\ job[i].alignment = Alignment(ExpectedGroup(l), FALSE)
                    /\ job[i].trimmed \in
                          {None, Alignment(<<>>, TRUE),
                           Alignment(ExpectedGroup(l), TRUE),
                           Alignment(ExpectedGroup(l), FALSE)}
                    /\ job[i].trimmed.isNone <=>
                          NexusName(l) \notin DOMAIN outdir.files
                    /\ ~job[i].trimmed.isNone =>
                          outdir.files[NexusName(l)] =
                              [format |-> "nexus", alignment |-> job[i].trimmed]

C11_Witness ==
    /\ pc = "completed"
    /\ cpu # 0
    /\ Cardinality(DOMAIN outdir.files) = 2
    /\ outqueue[1][1] = 2
    /\ job[1].fasta = 2

\* params has been built.
ParamsBuilt ==
    pc \in {"dispatch", "assert_failed", "map", "pool_map", "write", "completed"}

\* The groups of the partition that meet the coverage policy.
Survivors ==
    {k \in DOMAIN snapshot :
        Len(snapshot[k]) >= (IF args.notstrict THEN 3 ELSE args.species)}

\* C12: exactly one Job is built for every locus that survived filtering and
\* none for a dropped one, so every temporary file and every Aligner call
\* belongs to the Job of a surviving locus; Jobs are started in the order of
\* the list built from the filtered mapping, and every Job carries the same
\* run-wide window, threshold, notrim, proportion and max_divergence.
C12_OneJobPerSurvivor ==
    /\ ~ParamsBuilt => (params = <<>> /\ job = <<>> /\ tmpdir = EmptyMap)
    /\ ParamsBuilt =>
          /\ Len(params) = Cardinality(Survivors)
          /\ Len(job) = Len(params)
          /\ {params[i][1][1] : i \in DOMAIN params} = Survivors
          /\ \A i \in DOMAIN params :
                /\ params[i][1][2] = snapshot[params[i][1][1]]
                /\ params[i][2] = <<args.window, args.threshold, args.notrim,
                                    args.proportion, args.max_divergence>>
          /\ \A i, j \in DOMAIN job :
                (i < j /\ job[j].state # "queued") => job[i].state # "queued"
          /\ Cardinality(DOMAIN tmpdir) =
                Cardinality({i \in DOMAIN job : job[i].state # "queued"})
          /\ \A f \in DOMAIN tmpdir :
                \E i \in DOMAIN job :
                    /\ job[i].fasta = f
                    /\ tmpdir[f] = snapshot[params[i][1][1]]
          /\ \A i \in DOMAIN job :
                job[i].state \in {"aligned", "trimmed", "done"} =>
                    job[i].alignment.rows = snapshot[params[i][1][1]]

C12_Witness ==
    /\ pc = "completed"
    /\ Len(params) = 1
    /\ Cardinality(DOMAIN snapshot) = 2
    /\ Cardinality(DOMAIN tmpdir) = 1
    /\ job[1].state = "done"

\* C13: every Job emits exactly one progress character and it agrees with
\* what the collator does for the locus: '.' exactly if the trimmed value is
\* present (and the file is written), 'X' exactly if it is absent (and no
\* file is written), whatever value the Aligner left in trimmed.
C13_ProgressAgreesWithCollator ==
    \A i \in DOMAIN job :
        /\ job[i].state # "done" => job[i].progress = <<>>
        /\ job[i].state = "done" =>
              /\ Len(job[i].progress) = 1
              /\ job[i].progress[1] = "." <=> ~job[i].trimmed.isNone
              /\ job[i].progress[1] = "X" <=> job[i].trimmed.isNone
              /\ pc = "completed" =>
                    (job[i].progress[1] = "." <=>
                        NexusName(params[i][1][1]) \in DOMAIN outdir.files)

\* The "DROPPED ... from output" lines logged so far.
DropLines ==
    {m \in BagToSet(warnings) : m.text = DroppedFromOutputTmpl.text}

NumDropLines ==
    LET counts == [m \in DropLines |-> CopiesIn(m, warnings)]
        RECURSIVE Sum(_)
        Sum(S) == IF S = {} THEN 0
                  ELSE LET m == CHOOSE x \in S : TRUE
                       IN  counts[m] + Sum(S \ {m})
    IN  Sum(DropLines)

\* C14: every Job produces its result once and the collator consumes every
\* result once: there is one result per Job and per surviving locus, no locus
\* key occurs in two results, every result consumed so far has led to exactly
\* one effect (its file, or its drop line), and when the collator has
\* finished all results are consumed.
C14_ResultsProducedAndConsumedOnce ==
    /\ \A i \in DOMAIN job :
          Cardinality({k \in DOMAIN outqueue : outqueue[k][1] = i}) =
              (IF job[i].state = "done" THEN 1 ELSE 0)
    /\ pc \in {"write", "completed"} =>
          /\ Len(alignments) = Len(params)
          /\ Len(alignments) = Cardinality(DOMAIN loci)
          /\ \A i, j \in DOMAIN alignments :
                alignments[i][1] = alignments[j][1] => i = j
          /\ Cardinality(DOMAIN outdir.files) + NumDropLines = nwritten
          /\ \A i \in DOMAIN alignments :
                LET locus == alignments[i][1]
                    drops == CopiesIn(PyFormat(DroppedFromOutputTmpl, <<locus>>),
                                      warnings)
                    files == IF NexusName(locus) \in DOMAIN outdir.files
                             THEN 1 ELSE 0
                IN  files + drops = (IF i <= nwritten THEN 1 ELSE 0)
    /\ pc = "completed" => nwritten = Len(alignments)

C14_Witness ==
    /\ pc = "completed"
    /\ cpu # 0
    /\ Len(alignments) = 2
    /\ nwritten = 2
    /\ Cardinality(DOMAIN outdir.files) = 1
    /\ NumDropLines = 1

\* Job i has entered align().
Started(i) == job[i].state # "queued"

\* Every started Job has a temporary file of its own, holding its own
\* sequences, and an alignment made from that file alone; every Job's
\* options are the run-wide values.
JobsIsolated ==
    /\ \A i, j \in DOMAIN job :
          (Started(i) /\ Started(j) /\ i # j) => job[i].fasta # job[j].fasta
    /\ \A i \in DOMAIN job :
          /\ Started(i) =>
                /\ job[i].fasta \in DOMAIN tmpdir
                /\ tmpdir[job[i].fasta] = params[i][1][2]
          /\ job[i].state \in {"aligned", "trimmed", "done"} =>
                job[i].alignment.rows = params[i][1][2]
          /\ params[i][2] = <<args.window, args.threshold, args.notrim,
                              args.proportion, args.max_divergence>>

\* C15: no two Jobs ever share a temporary file or an alignment: each Job
\* works on a fresh file of its own and on the alignment made from it; a
\* temporary file, once written, is never changed by another Job; and the
\* configuration the Jobs read is modified by none of them.
C15_JobsShareOnlyConfig ==
    [][ /\ JobsIsolated'
        /\ args' = args
        /\ (ParamsBuilt => params' = params)
        /\ \A f \in DOMAIN tmpdir :
              f \in DOMAIN tmpdir' /\ tmpdir'[f] = tmpdir[f] ]_vars

C15_Witness ==
    /\ pc = "pool_map"
    /\ Len(job) = 2
    /\ job[1].state = "aligned"
    /\ job[2].state = "aligned"
    /\ job[1].fasta # job[2].fasta
    /\ job[1].alignment # job[2].alignment

\* C16: partitioning loses, duplicates and reorders nothing. Every group of
\* the pre-filter mapping is exactly the subsequence, in read order, of the
\* input records that carry its locus key and were not skipped for
\* ambiguity (so equal records coexist as often as they were read), the
\* groups are exactly the keys with at least one such record, and the
\* records in groups plus the skipped ones are all the records read.
C16_PartitionKeepsRecords ==
    LET groups == PreFilter
        keys == {LocusOf(r, args.faircloth) : r \in Records}
    IN  /\ DOMAIN groups \subseteq keys
        /\ \A k \in keys :
              LET expected == ExpectedGroup(k)
              IN  IF expected = <<>>
                  THEN k \notin DOMAIN groups
                  ELSE k \in DOMAIN groups /\ groups[k] = expected
        /\ Len(skipped) + Cardinality(UNION {{k} \X DOMAIN groups[k] : k \in DOMAIN groups})
              = Len(infile)

C16_Witness ==
    /\ pc = "filter"
    /\ args.faircloth /\ args.ambiguous
    /\ \E k \in DOMAIN snapshot :
          /\ Len(snapshot[k]) = 3
          /\ snapshot[k][1] = snapshot[k][3]
          /\ snapshot[k][1] # snapshot[k][2]
          /\ HasN(snapshot[k][2].sequence)

C18_NoOutputBeforeAllJobsReturn ==
    /\ (\E i \in DOMAIN job : job[i].state # "done") =>
          /\ pc \notin {"write", "completed"}
          /\ alignments = <<>>
          /\ nwritten = 0
          /\ DOMAIN outdir.files = {}
    /\ pc \in {"write", "completed"} =>
          /\ \A i \in DOMAIN job : job[i].state = "done"
          /\ Len(outqueue) = Len(job)

C18_Witness ==
    /\ pc = "pool_map"
    /\ Len(job) = 2
    /\ job[1].state = "done"
    /\ ~job[1].trimmed.isNone
    /\ job[2].state = "fasta"
    /\ DOMAIN outdir.files = {}

\* C19: once the capacity check has passed, under fair scheduling and with
\* Aligner calls that return, the run reaches the completed state; there
\* every Job that was started has run to its end and every surviving locus
\* has its file or its drop line.
C19_RunTerminates ==
    /\ (pc \in {"map", "pool_map"}) ~> (pc = "completed")
    /\ [](pc = "completed" =>
            /\ \A i \in DOMAIN job : job[i].state = "done"
            /\ \A l \in DOMAIN loci :
                \/ NexusName(l) \in DOMAIN outdir.files
                \/ CopiesIn(PyFormat(DroppedFromOutputTmpl, <<l>>), warnings) = 1)

C19_Witness ==
    /\ pc = "completed"
    /\ cpu = MaxCpu
    /\ Len(job) = 2
    /\ \A i \in DOMAIN job : job[i].state = "done"
    /\ \A l \in DOMAIN loci :
          \/ NexusName(l) \in DOMAIN outdir.files
          \/ CopiesIn(PyFormat(DroppedFromOutputTmpl, <<l>>), warnings) = 1
====
